---- MODULE Spec2Model ----
(***************************************************************************)
(* Model of the Animator class of src/src/thin-gifler.js: the playback     *)
(* scheduler (start / stop / reset / running, the two-phase tick made of   *)
(* a setTimeout callback and a requestAnimationFrame callback, the         *)
(* frame-advance rule and the drift-compensating frame-skip loop) together *)
(* with the default onFrame hook installed by animateInCanvas: the lazily   *)
(* created frame buffers, the pending disposal action and its effect on    *)
(* the canvas.                                                             *)
(*                                                                         *)
(* Time is in milliseconds.  JavaScript is single threaded: start(),       *)
(* stop(), reset() and the callbacks run only while no other handler is    *)
(* executing (pc = "idle").  The while loop of _enqueueNextFrame reads the *)
(* clock in every iteration, so one iteration is one step (pc = "loop").   *)
(***************************************************************************)
EXTENDS Integers, Sequences, FiniteSets, Bags, TLC

(* ------------------------------ bounds --------------------------------- *)
MaxFrames == 2
MaxDelay == 1
MaxLoopCount == 1
MaxTime == 30
Quantum == 15
MaxPending == 2

\* Passes that one run of the skip loop is followed through.  A pass over a
\* GIF with a frame of delay > 0 makes up 10 ms at least and the clock stops
\* at MaxTime, so only a loop that makes up nothing reaches this bound.
MaxLoops == MaxLoopCount + (MaxTime \div 10) + 2

(* Frame disposal codes of the GIF format that the default hook tells apart *)
(* (case 2, case 3, default).                                              *)
Disposals == {0, 2, 3}

Frame == [delay : 0..MaxDelay, disposal : Disposals]

\* The disposal codes of a GIF's frames follow this cycle from some offset,
\* so that every code and every change of code occurs with few frames.
DisposalCycle == <<0, 2, 3>>

Gifs ==
    UNION {{g \in [1..n -> Frame] :
              \E o \in 0..2 :
                 \A i \in 1..n : g[i].disposal = DisposalCycle[((i + o) % 3) + 1]}
           : n \in 1..MaxFrames}

VARIABLES
    frames,             \* this._frames : the decoded frames (never reassigned)
    loopCount,          \* this._loopCount
    loops,              \* this._loops
    frameIndex,         \* this._frameIndex (0-based)
    running,            \* this._running
    lastTime,           \* this._lastTime
    delayCompensation,  \* this._delayCompensation
    disposeFrame,       \* this.disposeFrame
    saved,              \* the ImageData captured by the closure of case 3
    canvas,             \* the pixels of the target canvas (see DrawImage)
    buffer,             \* per frame index: calls of createBufferCanvas for that frame
                        \*          (0 = frame.buffer is still undefined)
    timers,             \* bag of the due times of the pending setTimeout callbacks
    rafs,               \* number of pending requestAnimationFrame callbacks
    now,                \* new Date().valueOf()
    pc,                 \* "idle", or "loop" inside the while loop of _enqueueNextFrame
    op,                 \* history: what the program did last ("render" = onFrame ran,
                        \*          "throw" = onFrame invoked and threw)
    shown,              \* history: frame index passed to the last onFrame invocation
    pristine,           \* history: one start() at most, no stop(), no reset(), no skip
    renders,            \* history: onFrame invocations of a pristine run (0 once disturbed)
    afterReset,         \* history: phase "pending" from a reset() made while running
                        \*          (from = frameIndex before it) until the next onFrame
                        \*          invocation, which makes it "shown"
    failed,             \* history: an onFrame invocation threw and start() was not
                        \*          called since
    nominal,            \* history: time of the last start() plus the nominal delays
                        \*          (delay * 10) of the frames advanced to since
    ran,                \* history: the pending action that the last onFrame run
                        \*          executed ("none" if there was none)
    before              \* history: the canvas in the last onFrame run between the
                        \*          pending action and the draw

vars == <<frames, loopCount, loops, frameIndex, running, lastTime,
          delayCompensation, disposeFrame, saved, canvas, buffer, timers, rafs,
          now, pc, op, shown, pristine, renders, afterReset, failed, nominal,
          ran, before>>

\* What the constructor fixes for the life of the animator.
gif == <<frames, loopCount>>

\* What only the default onFrame hook touches.
surface == <<disposeFrame, saved, canvas, buffer, ran, before>>

(* ----------------------------- helpers --------------------------------- *)
FrameCount == Len(frames)

\* this._frames[i] for an index inside the array
FrameAt(i) == frames[i + 1]

\* the scheduled continuations: delay timers and paint callbacks
Pending == BagCardinality(timers) + rafs

\* setTimeout(this._nextFrame, delay)
SetTimeout(bag, delay) == bag (+) SetToBag({now + delay})

(* ----------------------------- _advanceFrame ---------------------------- *)
\* Variant: the loop limit compared one pass early.
AdvanceFrame_StopsEarly(fi, lp, run) ==
    LET next == fi + 1 IN
    IF next >= FrameCount
    THEN IF loopCount # 0 /\ loopCount = lp + 1
         THEN [frameIndex |-> next, loops |-> lp, running |-> FALSE]
         ELSE [frameIndex |-> 0, loops |-> lp + 1, running |-> run]
    ELSE [frameIndex |-> next, loops |-> lp, running |-> run]

\* Variant: the test for an infinite loop (loopCount !== 0) left out.
AdvanceFrame_NoInfinite(fi, lp, run) ==
    LET next == fi + 1 IN
    IF next >= FrameCount
    THEN IF loopCount = lp
         THEN [frameIndex |-> next, loops |-> lp, running |-> FALSE]
         ELSE [frameIndex |-> 0, loops |-> lp + 1, running |-> run]
    ELSE [frameIndex |-> next, loops |-> lp, running |-> run]

\* Variant: the animation wraps whatever the loop limit.
AdvanceFrame_NeverStops(fi, lp, run) ==
    LET next == fi + 1 IN
    IF next >= FrameCount
    THEN [frameIndex |-> 0, loops |-> lp + 1, running |-> run]
    ELSE [frameIndex |-> next, loops |-> lp, running |-> run]

AdvanceFrame(fi, lp, run) ==
    LET next == fi + 1 IN
    IF next >= FrameCount
    THEN IF loopCount # 0 /\ loopCount = lp
         THEN [frameIndex |-> next, loops |-> lp, running |-> FALSE]
         ELSE [frameIndex |-> 0, loops |-> lp + 1, running |-> run]
    ELSE [frameIndex |-> next, loops |-> lp, running |-> run]

\* The nominal delay in ms of the frame that _advanceFrame has moved to
\* (none when it stopped the animation past the last frame).
NominalDelay(adv) ==
    IF adv.running THEN FrameAt(adv.frameIndex).delay * 10 ELSE 0

(* ------------------------------ Init ----------------------------------- *)
\* The constructor leaves _lastTime, _delayCompensation and disposeFrame
\* unassigned.  The two numbers are read only by _enqueueNextFrame, which
\* runs only after start() has assigned them, so they start at 0 here.
\* animateInCanvas(canvas, true) sizes the canvas, which blanks it.
Init ==
    /\ frames \in Gifs
    /\ loopCount \in 0..MaxLoopCount
    /\ loops = 0
    /\ frameIndex = 0
    /\ running = FALSE
    /\ lastTime = 0
    /\ delayCompensation = 0
    /\ disposeFrame = "undefined"
    /\ saved = << >>
    /\ canvas = << >>
    /\ buffer = [i \in 0..(Len(frames) - 1) |-> 0]
    /\ timers = EmptyBag
    /\ rafs = 0
    /\ now = 0
    /\ pc = "idle"
    /\ op = "new"
    /\ shown = -1
    /\ pristine = TRUE
    /\ renders = 0
    /\ afterReset = [phase |-> "no", from |-> 0]
    /\ failed = FALSE
    /\ nominal = 0
    /\ ran = "none"
    /\ before = << >>

(* ------------------------------ start() -------------------------------- *)
\* Variant: start() that also rewinds to the first frame.
Start_Rewinds ==
    /\ pc = "idle"
    /\ Pending < MaxPending
    /\ lastTime' = now
    /\ delayCompensation' = 0
    /\ running' = TRUE
    /\ frameIndex' = 0
    /\ timers' = SetTimeout(timers, 0)
    /\ op' = "start"
    /\ pristine' = (pristine /\ op = "new")
    /\ renders' = IF pristine' THEN renders ELSE 0
    /\ failed' = FALSE
    /\ nominal' = now
    /\ UNCHANGED <<gif, surface, loops, rafs, now, pc, shown, afterReset>>

Start ==
    /\ pc = "idle"
    /\ Pending < MaxPending
    /\ lastTime' = now
    /\ delayCompensation' = 0
    /\ running' = TRUE
    /\ timers' = SetTimeout(timers, 0)
    /\ op' = "start"
    /\ pristine' = (pristine /\ op = "new")
    /\ renders' = IF pristine' THEN renders ELSE 0
    /\ failed' = FALSE
    /\ nominal' = now
    /\ UNCHANGED <<gif, surface, loops, frameIndex, rafs, now, pc, shown,
                   afterReset>>

(* ------------------------------- stop() -------------------------------- *)
Stop ==
    /\ pc = "idle"
    /\ running' = FALSE
    /\ op' = "stop"
    /\ pristine' = FALSE
    /\ renders' = 0
    /\ UNCHANGED <<gif, surface, loops, frameIndex, lastTime,
                   delayCompensation, timers, rafs, now, pc, shown, afterReset,
                   failed, nominal>>

(* ------------------------------- reset() ------------------------------- *)
\* Variant: reset() that also stops the animation.
Reset_Stops ==
    /\ pc = "idle"
    /\ frameIndex' = 0
    /\ loops' = 0
    /\ running' = FALSE
    /\ op' = "reset"
    /\ pristine' = FALSE
    /\ renders' = 0
    /\ afterReset' = IF running
                     THEN [phase |-> "pending", from |-> frameIndex]
                     ELSE afterReset
    /\ UNCHANGED <<gif, surface, lastTime, delayCompensation, timers, rafs,
                   now, pc, shown, failed, nominal>>

\* Variant: reset() that clears the loop counter only.
Reset_KeepsFrame ==
    /\ pc = "idle"
    /\ loops' = 0
    /\ op' = "reset"
    /\ pristine' = FALSE
    /\ renders' = 0
    /\ afterReset' = IF running
                     THEN [phase |-> "pending", from |-> frameIndex]
                     ELSE afterReset
    /\ UNCHANGED <<gif, surface, frameIndex, running, lastTime,
                   delayCompensation, timers, rafs, now, pc, shown, failed,
                   nominal>>

Reset ==
    /\ pc = "idle"
    /\ frameIndex' = 0
    /\ loops' = 0
    /\ op' = "reset"
    /\ pristine' = FALSE
    /\ renders' = 0
    /\ afterReset' = IF running
                     THEN [phase |-> "pending", from |-> frameIndex]
                     ELSE afterReset
    /\ UNCHANGED <<gif, surface, running, lastTime, delayCompensation, timers,
                   rafs, now, pc, shown, failed, nominal>>

(* ------------------------------ _nextFrame ------------------------------ *)
\* The setTimeout callback: requestAnimationFrame(this._nextFrameRender).
\* A timer never fires before its due time; it may fire any time after it.
NextFrame(due) ==
    /\ pc = "idle"
    /\ due \in BagToSet(timers)
    /\ due <= now
    /\ timers' = timers (-) SetToBag({due})
    /\ rafs' = rafs + 1
    /\ op' = "timer"
    /\ UNCHANGED <<gif, surface, loops, frameIndex, running, lastTime,
                   delayCompensation, now, pc, shown, pristine, renders,
                   afterReset, failed, nominal>>

(* ------------------------- default onFrame hook ------------------------- *)
\* The canvas is the sequence of the frames whose pixels lie on it, bottom
\* first.  A GIF pixel is opaque or transparent, so drawing frame i again
\* covers exactly what an earlier draw of frame i left: the earlier layer
\* is dropped.  << >> is the blank canvas.

\* frame = this._frames[this._frameIndex] is undefined when the index is
\* outside the array; the hook then fails on reading frame.buffer.
HookThrows(i) == i >= FrameCount

\* Variant: the buffer canvas built at every render.
NeedsBuffer_Always(made) == TRUE

\* if (frame.buffer == null)
NeedsBuffer(made) == made = 0

\* typeof this.disposeFrame === 'function'
IsFunction(df) == df \in {"clearRect", "putImageData"}

\* Variant: a pending action that is never called.
RunDisposeFrame_Never(df, sv, cv) == cv

\* Variant: a pending restore that puts nothing back.
RunDisposeFrame_ClearOnly(df, sv, cv) ==
    IF df = "clearRect" THEN << >> ELSE cv

\* The canvas after  if (typeof this.disposeFrame === 'function')
\* this.disposeFrame()  on canvas cv, sv being the ImageData of the closure:
\* clearRect(0, 0, canvas.width, canvas.height) blanks the whole canvas,
\* putImageData(saved, 0, 0) replaces every pixel by the saved one.
RunDisposeFrame(df, sv, cv) ==
    CASE df = "clearRect" -> << >>
      [] df = "putImageData" -> sv
      [] OTHER -> cv

\* Variant: restore-previous handled like restore-background.
InstalledDisposal_ClearsFor3(frame) ==
    CASE frame.disposal = 2 -> "clearRect"
      [] frame.disposal = 3 -> "clearRect"
      [] OTHER -> "null"

\* The switch on frame.disposal: the value left in this.disposeFrame.
InstalledDisposal(frame) ==
    CASE frame.disposal = 2 -> "clearRect"
      [] frame.disposal = 3 -> "putImageData"
      [] OTHER -> "null"

\* ctx.getImageData(0, 0, canvas.width, canvas.height) in case 3: a copy of
\* every pixel of canvas cv; the other cases capture nothing.
GetImageData(frame, cv) == IF frame.disposal = 3 THEN cv ELSE << >>

\* ctx.drawImage(frame.buffer, frame.x, frame.y) for frame i on canvas cv
DrawImage(cv, i) == SelectSeq(cv, LAMBDA j : j # i) \o <<i>>

\* The hook for the frame at index i.
OnFrame(i) ==
    LET cleared == RunDisposeFrame(disposeFrame, saved, canvas) IN
    /\ buffer' = [buffer EXCEPT ![i] = IF NeedsBuffer(@) THEN @ + 1 ELSE @]
    /\ ran' = IF IsFunction(disposeFrame) THEN disposeFrame ELSE "none"
    /\ before' = cleared
    /\ disposeFrame' = InstalledDisposal(FrameAt(i))
    /\ saved' = GetImageData(FrameAt(i), cleared)
    /\ canvas' = DrawImage(cleared, i)

(* --------------------------- _nextFrameRender --------------------------- *)
\* Variant: the running flag not tested.
Cancelled_Never == FALSE

\* if (!this._running) return
Cancelled == ~running

NextFrameRender ==
    /\ pc = "idle"
    /\ rafs > 0
    /\ rafs' = rafs - 1
    /\ IF Cancelled
       THEN /\ op' = "cancelled"
            /\ UNCHANGED <<surface, loops, frameIndex, running, pc, shown,
                           renders, afterReset, failed, nominal>>
       ELSE /\ loops <= MaxLoopCount
            /\ shown' = frameIndex
            /\ renders' = IF pristine THEN renders + 1 ELSE 0
            /\ afterReset' = IF afterReset.phase = "pending"
                             THEN [afterReset EXCEPT !.phase = "shown"]
                             ELSE [phase |-> "no", from |-> 0]
            /\ IF HookThrows(frameIndex)
               THEN \* the exception leaves the handler: no _enqueueNextFrame
                    /\ op' = "throw"
                    /\ failed' = TRUE
                    /\ UNCHANGED <<surface, loops, frameIndex, running, pc,
                                   nominal>>
               ELSE LET adv == AdvanceFrame(frameIndex, loops, running) IN
                    /\ op' = "render"
                    /\ failed' = failed
                    /\ OnFrame(frameIndex)
                    /\ frameIndex' = adv.frameIndex
                    /\ loops' = adv.loops
                    /\ running' = adv.running
                    /\ pc' = IF adv.running THEN "loop" ELSE "idle"
                    /\ nominal' = nominal + NominalDelay(adv)
    /\ UNCHANGED <<gif, lastTime, delayCompensation, timers, now, pristine>>

(* ---------------- one iteration of while (this._running) ---------------- *)
\* Variant: the delay of the frame taken as it is, the debt ignored.
ActualDelay_NoDebt(frameDelay, comp) == frameDelay

\* actualDelay = frameDelay - this._delayCompensation
ActualDelay(frameDelay, comp) == frameDelay - comp

\* Variant: every frame is skipped.
Behind_Always(actualDelay) == TRUE

\* Variant: no frame is ever skipped.
Behind_Never(actualDelay) == FALSE

\* if (actualDelay < 0)
Behind(actualDelay) == actualDelay < 0

EnqueueNextFrame ==
    /\ pc = "loop"
    /\ loops <= MaxLoops
    /\ LET frame == FrameAt(frameIndex)
           delta == now - lastTime
           comp == delayCompensation + delta
           frameDelay == frame.delay * 10
           actualDelay == ActualDelay(frameDelay, comp)
           adv == AdvanceFrame(frameIndex, loops, running)
       IN  /\ lastTime' = lastTime + delta
           /\ delayCompensation' = comp - frameDelay
           /\ IF Behind(actualDelay)
              THEN /\ frameIndex' = adv.frameIndex
                   /\ loops' = adv.loops
                   /\ running' = adv.running
                   /\ pc' = IF adv.running THEN "loop" ELSE "idle"
                   /\ op' = "skip"
                   /\ pristine' = FALSE
                   /\ renders' = 0
                   /\ nominal' = nominal + NominalDelay(adv)
                   /\ UNCHANGED timers
              ELSE /\ timers' = SetTimeout(timers, actualDelay)
                   /\ pc' = "idle"
                   /\ op' = "enqueue"
                   /\ UNCHANGED <<frameIndex, loops, running, pristine, renders,
                                  nominal>>
    /\ UNCHANGED <<gif, surface, rafs, now, shown, afterReset, failed>>

(* ------------------------------ the clock ------------------------------- *)
ClockTick ==
    /\ now + Quantum <= MaxTime
    /\ now' = now + Quantum
    /\ UNCHANGED <<gif, surface, loops, frameIndex, running, lastTime,
                   delayCompensation, timers, rafs, pc, op, shown, pristine,
                   renders, afterReset, failed, nominal>>

Next ==
    \/ Start
    \/ Stop
    \/ Reset
    \/ \E due \in BagToSet(timers) : NextFrame(due)
    \/ NextFrameRender
    \/ EnqueueNextFrame
    \/ ClockTick

Spec == Init /\ [][Next]_vars

(* ------------------- the skip loop run to its end ----------------------- *)
\* The while loop is synchronous code: once entered, its iterations follow
\* one another until it breaks or _running falls (weak fairness of the
\* iteration), and the clock does not move while it runs.  stop() is left
\* out: it runs between handlers only, and a stopped scheduler does not
\* enter the loop.
NextHeld ==
    \/ Start
    \/ Reset
    \/ \E due \in BagToSet(timers) : NextFrame(due)
    \/ NextFrameRender
    \/ EnqueueNextFrame
    \/ (pc = "idle" /\ ClockTick)

SpecHeld == Init /\ [][NextHeld]_vars /\ WF_vars(EnqueueNextFrame)

(* ======================================================================= *)
(*                              Properties                                 *)
(* ======================================================================= *)

\* A step of the program (the clock does not move in it) that did o.
Step(o) == now' = now /\ op' = o

\* A step in which onFrame is invoked.
Invoked == Step("render") \/ Step("throw")

\* A pristine run that has stopped: one start(), no stop(), so it stopped itself.
StoppedItself == pristine /\ op # "new" /\ ~running /\ pc = "idle"

\* All frames have a delay > 0.
AllDelaysPositive == \A i \in 1..FrameCount : frames[i].delay > 0

\* Target time of the frame at frameIndex: the time of the last start()
\* plus the nominal delays of the frames advanced to since.
Target == lastTime - delayCompensation

\* The frame whose turn it is at time `now` when frame i was due at time t,
\* each frame being due its nominal delay after the one before it.
RECURSIVE DueFrame(_, _)
DueFrame(i, t) ==
    LET n == (i + 1) % FrameCount
        d == FrameAt(n).delay * 10
    IN  IF t + d > now THEN i ELSE DueFrame(n, t + d)

\* The clock is past the frame at frameIndex by more than the nominal delays
\* of the two frames that follow it.
JumpedSeveralFrames ==
    LET n1 == (frameIndex + 1) % FrameCount
        n2 == (n1 + 1) % FrameCount
    IN  now - Target > FrameAt(n1).delay * 10 + FrameAt(n2).delay * 10

(* C1: with loopLimit = k > 0, a run from the initial state with one start() *)
(* and no skipped frame renders exactly k * frameCount frames before the     *)
(* scheduler stops on its own (3 frames, k = 1: exactly 3 renders).          *)
C1_ExactlyKPasses ==
    (StoppedItself /\ loopCount > 0) => renders = loopCount * FrameCount

(* C2: whenever the scheduler stops on its own (running falls without a      *)
(* stop() call), loopLimit # 0 and loopsCompleted = loopLimit at that        *)
(* moment; and running becomes true again only by start().                   *)
C2_StopsAtLoopLimit ==
    [][ /\ (running /\ ~running' /\ ~Step("stop"))
            => (loopCount # 0 /\ loops' = loopCount)
        /\ (~running /\ running') => Step("start") ]_vars

C2_Witness ==
    /\ op \in {"render", "skip"}
    /\ ~running
    /\ loops = loopCount

(* C3: with loopLimit = 0 running goes from true to false only by an         *)
(* explicit stop(), whatever the tick timings and the frames skipped.        *)
C3_InfiniteNeverStops ==
    [][ (loopCount = 0 /\ running /\ ~running') => Step("stop") ]_vars

C3_Witness ==
    /\ loopCount = 0
    /\ running
    /\ op = "skip"
    /\ loops > 1

(* C4: at any moment at most one scheduled continuation (delay timer or      *)
(* paint callback) is pending.                                               *)
C4_AtMostOnePending == Pending <= 1

C6_ResetEffect ==
    [][ Step("reset") =>
          /\ frameIndex' = 0
          /\ loops' = 0
          /\ running' = running
          /\ lastTime' = lastTime
          /\ delayCompensation' = delayCompensation
          /\ disposeFrame' = disposeFrame
          /\ shown' = shown
          /\ timers' = timers
          /\ rafs' = rafs ]_vars

C6_Witness ==
    /\ op = "reset"
    /\ running
    /\ afterReset.phase = "pending"
    /\ afterReset.from > 0
    /\ frameIndex = 0
    /\ loops = 0
    /\ disposeFrame = "putImageData"
    /\ Pending > 0

(* C7: after a reset() made while running, the next onFrame invocation is    *)
(* for frame index 0.                                                        *)
C7_RenderAfterReset ==
    [][ (Invoked /\ afterReset.phase = "pending") => shown' = 0 ]_vars

C7_Witness ==
    /\ op = "render"
    /\ afterReset.phase = "shown"
    /\ afterReset.from > 0
    /\ shown = 0

(* C8: start() in any state leaves frameIndex and loopsCompleted unchanged   *)
(* and sets running = true, lastTickTime = now, delayDebt = 0; frameIndex    *)
(* is held while stopped (reset() apart) and the index rendered is the one   *)
(* held, so stop() then start() resumes at the frame held at stop().         *)
C8_StartEffect ==
    [][ /\ Step("start") =>
              /\ frameIndex' = frameIndex
              /\ loops' = loops
              /\ running'
              /\ lastTime' = now
              /\ delayCompensation' = 0
        /\ (~running /\ ~Step("reset")) => frameIndex' = frameIndex
        /\ Invoked => shown' = frameIndex ]_vars

C8_Witness ==
    /\ op = "start"
    /\ running
    /\ ~pristine
    /\ frameIndex > 0
    /\ loops > 0
    /\ lastTime = now
    /\ now > 0
    /\ delayCompensation = 0

(* C9: when the clock has jumped past the nominal delays of several frames,  *)
(* the first frame rendered after the jump is the frame due at the current   *)
(* time by the cumulative nominal delays.                                    *)
C9_RendersDueFrame ==
    [][ ( /\ Step("render")
          /\ loopCount = 0
          /\ AllDelaysPositive
          /\ JumpedSeveralFrames )
        => shown' = DueFrame(frameIndex, Target) ]_vars

(* C10: every delay passed to setTimeout, by start() or by the enqueue step, *)
(* is >= 0.  A timer set with delay d is due at now + d, so the delay of a   *)
(* timer added in a step is its due time minus now.                          *)
C10_NoNegativeDelay ==
    [][ \A due \in BagToSet(timers') :
           CopiesIn(due, timers') > CopiesIn(due, timers) => due - now >= 0 ]_vars

C10_Witness ==
    /\ op = "enqueue"
    /\ running
    /\ frameIndex # (shown + 1) % FrameCount
    /\ \E due \in BagToSet(timers) : due > now

(* C15: in every state between two handlers (after the automatic stop at    *)
(* the loop limit too) frameIndex is in 0 .. frameCount - 1, so a rendering  *)
(* tick always reads an existing frame.                                      *)
C15_FrameIndexInRange ==
    pc = "idle" => frameIndex \in 0..(FrameCount - 1)

(* C20: with loopLimit # 0, loopsCompleted never exceeds loopLimit; and      *)
(* loopsCompleted changes only by +1 where frameIndex wraps to 0 (in a tick  *)
(* or a skip) or to 0 by reset().                                            *)
C20_LoopsBounded ==
    /\ [](loopCount # 0 => loops <= loopCount)
    /\ [][ loops' # loops =>
             \/ /\ loops' = loops + 1
                /\ frameIndex = FrameCount - 1
                /\ frameIndex' = 0
                /\ (Step("render") \/ Step("skip"))
             \/ /\ loops' = 0
                /\ Step("reset") ]_vars

C20_Witness ==
    /\ loopCount # 0
    /\ loops = loopCount
    /\ op = "skip"
    /\ frameIndex = 0
    /\ running

(* C13: a tick whose onFrame hook throws leaves frameIndex (and the loop    *)
(* counter) alone and schedules no timer; and after it no onFrame           *)
(* invocation occurs until start() is called again.                         *)
C13_FailureHaltsChain ==
    [][ /\ Step("throw") =>
              /\ frameIndex' = frameIndex
              /\ loops' = loops
              /\ timers' = timers
              /\ rafs' = rafs - 1
        /\ (failed /\ ~Step("start")) => ~Invoked ]_vars

(* C14: after a tick whose onFrame hook threw, and until start() is called  *)
(* again, the scheduler is stopped: running() returns false.                *)
C14_FailureStops == failed => ~running

(* C16: each time the enqueue step schedules a timer, the delay debt equals  *)
(* minus the scheduled delay, and lastTickTime plus the scheduled delay      *)
(* equals the time of the last start() plus the nominal delays of all the    *)
(* frames advanced to since, rendered or skipped.                            *)
C16_DriftCompensation ==
    [][ Step("enqueue") =>
          \E due \in BagToSet(timers') :
             /\ CopiesIn(due, timers') = CopiesIn(due, timers) + 1
             /\ delayCompensation' = -(due - now)
             /\ lastTime' + (due - now) = nominal' ]_vars

\* A timer set by a tick that fired late, after a skipped frame: the delay
\* is shortened by the lateness that is left.
C16_Witness ==
    /\ op = "enqueue"
    /\ lastTime = 15
    /\ delayCompensation = -5
    /\ nominal = 20
    /\ loops > 0
    /\ ~pristine

(* C18: the pending action that a rendered frame leaves depends on its       *)
(* disposal code only: code 2 leaves a clear of the whole canvas, code 3 a   *)
(* restore of the snapshot taken before the frame was drawn, any other code  *)
(* leaves none, and then nothing is restored before the next frame is drawn. *)
C18_ActionByDisposalCode ==
    [][ Step("render") =>
          LET code == FrameAt(shown').disposal IN
          /\ code = 2 => disposeFrame' = "clearRect"
          /\ code = 3 => (disposeFrame' = "putImageData" /\ saved' = before')
          /\ code \notin {2, 3} => ~IsFunction(disposeFrame')
          /\ disposeFrame = "clearRect" => before' = << >>
          /\ disposeFrame = "putImageData" => before' = saved
          /\ ~IsFunction(disposeFrame) => (before' = canvas /\ ran' = "none")
      ]_vars

\* A frame with restore-previous disposal was drawn over a canvas that was
\* not blank, and a frame drawn after a frame that left no action.
C18_Witness ==
    /\ op = "render"
    /\ disposeFrame = "putImageData"
    /\ saved # << >>
    /\ ran = "none"
    /\ Len(canvas) > 1

(* C19: the buffer of a frame is created at the first render of that frame   *)
(* and never created again, whatever the loops, reset() calls and            *)
(* stop()/start() cycles; no other field of a frame is ever modified.        *)
C19_BufferCreatedOnce ==
    [][ /\ frames' = frames
        /\ \A i \in 0..(FrameCount - 1) :
              /\ buffer[i] = 1 => buffer'[i] = 1
              /\ buffer[i] = 0 =>
                    buffer'[i] = IF Step("render") /\ shown' = i THEN 1 ELSE 0
      ]_vars

\* The first frame rendered again after a reset() made while running, every
\* buffer still the one created at the first render of its frame.
C19_Witness ==
    /\ op = "render"
    /\ shown = 0
    /\ afterReset.phase = "shown"
    /\ ~pristine
    /\ loops > 0
    /\ Len(before) > 0
    /\ \A i \in 0..(FrameCount - 1) : buffer[i] = 1

(* C11: the pending action that a rendered frame installs is executed        *)
(* exactly once, in the next onFrame run, before that run draws its frame    *)
(* (whatever was skipped or reset in between), and not before the frame      *)
(* that installed it is drawn; there is one pending action at most.          *)
C11_PendingRunsOnceBeforeNextDraw ==
    [][ /\ Step("render") =>
              \* the action pending so far is executed, before the draw
              /\ ran' = IF IsFunction(disposeFrame) THEN disposeFrame ELSE "none"
              /\ before' = CASE disposeFrame = "clearRect" -> << >>
                             [] disposeFrame = "putImageData" -> saved
                             [] OTHER -> canvas
              \* the frame is drawn over that, its own action still to run
              /\ canvas' = DrawImage(before', shown')
              /\ disposeFrame' = InstalledDisposal(FrameAt(shown'))
        /\ ~Step("render") =>
              \* nothing executes, installs or drops an action elsewhere
              UNCHANGED <<disposeFrame, saved, canvas, ran, before>>
      ]_vars

\* A pending clear installed before a reset() made while running, executed
\* by the next render, that of frame 0.
C11_Witness ==
    /\ op = "render"
    /\ ran = "clearRect"
    /\ before = << >>
    /\ afterReset.phase = "shown"
    /\ afterReset.from > 0
    /\ canvas = <<shown>>

\* The frame drawn last: the top layer of a canvas that is not blank.
LastDrawn == canvas[Len(canvas)]

(* C12: when a frame with restore-previous disposal (code 3) is rendered and *)
(* then the next frame is rendered, the canvas in the second run after the   *)
(* pending action and before the draw is the canvas that the first run had   *)
(* immediately before it drew.                                               *)
C12_RestorePreviousRoundTrip ==
    [][ ( /\ Step("render")
          /\ canvas # << >>
          /\ FrameAt(LastDrawn).disposal = 3 )
        => before' = before ]_vars

\* The frame after a restore-previous frame drawn on the restored canvas,
\* which is not blank and from which the restore-previous frame is gone.
C12_Witness ==
    /\ op = "render"
    /\ ran = "putImageData"
    /\ before # << >>
    /\ \E j \in 0..(FrameCount - 1) :
          /\ FrameAt(j).disposal = 3
          /\ buffer[j] = 1
          /\ \A k \in 1..Len(canvas) : canvas[k] # j

\* At least one frame has a delay > 0.
SomeDelayPositive == \E i \in 1..FrameCount : frames[i].delay > 0

(* C17: with loopLimit # 0 or a frame of delay > 0, the skip loop of a tick, *)
(* entered with any delay debt and with the clock held during the loop,      *)
(* comes to its end: it schedules the next timer or the scheduler stops.     *)
C17_SkipLoopTerminates ==
    (pc = "loop" /\ (loopCount # 0 \/ SomeDelayPositive))
        ~> (pc = "idle" /\ (op = "enqueue" \/ ~running))

\* An endless animation with a zero-delay frame and a frame of delay > 0,
\* whose loop skipped through more than two whole passes and then set a timer.
C17_Witness ==
    /\ op = "enqueue"
    /\ pc = "idle"
    /\ loopCount = 0
    /\ SomeDelayPositive
    /\ ~AllDelaysPositive
    /\ loops > MaxLoopCount + 2

====
